---- MODULE Spec2Model ----
(***************************************************************************)
(* Session-context store of the DnDBug backend: the JSON context file, the *)
(* advisory per-session save lock, and the request handlers that load,     *)
(* change and save a session context.                                      *)
(*                                                                         *)
(* The server is one asyncio event loop.  A coroutine runs without         *)
(* interruption between two suspending awaits, so one action of this model *)
(* is either the effect of one file operation (done by the aiofiles worker *)
(* thread) or the synchronous code a coroutine runs when it is resumed.    *)
(* Python dicts are functions whose DOMAIN is the set of keys present.     *)
(* Timestamps (updatedAt, createdAt, lastUpdatedAt) are left out; lockedAt *)
(* is kept as the marker Stamp because its presence is observable.         *)
(***************************************************************************)
EXTENDS Integers, Sequences, FiniteSets, TLC

\* ------------------------------------------------------------- bounds
NumProcs == 3          \* concurrent requests in flight
MaxOps == 3            \* requests issued in one behaviour of Spec
MaxSeqOps == 2         \* requests issued in one behaviour of SpecSeq

\* --------------------------------------------------- program constants
MaxAttempts == 10      \* while ... and attempts < 10
Missing == -1          \* a numeric field that is absent or None

Procs == 1..NumProcs
Sessions == {"s1", "s2"}

\* ------------------------------------------------------ python dicts
EmptyDict == [x \in {} |-> x]
Has(d, k) == k \in DOMAIN d
Get(d, k, dflt) == IF k \in DOMAIN d THEN d[k] ELSE dflt
Put(d, k, v) == [x \in (DOMAIN d) \cup {k} |-> IF x = k THEN v ELSE d[x]]
Del(d, k) == [x \in (DOMAIN d) \ {k} |-> d[x]]
Merge(a, b) == [x \in (DOMAIN a) \cup (DOMAIN b) |-> IF x \in DOMAIN b THEN b[x] ELSE a[x]]
\* `x or d` on a number: None and 0 are falsy
PyOr(x, d) == IF x = Missing \/ x = 0 THEN d ELSE x

VARIABLES
  fstate,    \* context.json: "ok", or "broken" between the truncating open and the write
  store,     \* what the last completed write put in context.json: session id -> context
  chains,    \* content of the legacy chains.json: chain id -> chain
  slocks,    \* _session_locks: lock key -> holder (the code stores a timestamp)
  pc,        \* where each request handler is
  req,       \* the request each handler serves
  pre,       \* the context the handler obtained (load / get_or_create)
  ctx,       \* session_context: the context the handler passes to save_session_context
  allc,      \* all_contexts inside save_session_context / update_session_context
  attempts,  \* attempts inside save_session_context
  cont,      \* who called save_session_context: "create", "migrate" or "final"
  res,       \* outcome of the handler's last request
  nops       \* requests issued so far

vars == <<fstate, store, chains, slocks, pc, req, pre, ctx, allc, attempts, cont, res, nops>>

\* ------------------------------------------------------- block types
\* routers/context.py VALID_BLOCK_TYPES
RouterBlockTypes == {"blueprint", "player_hooks", "world_seeds", "style_prefs", "custom",
                     "story_facts", "background", "story_concept", "characters"}
\* services/lock_service.py VALID_BLOCK_TYPES (no story_facts)
VALID_BLOCK_TYPES == {"blueprint", "player_hooks", "world_seeds", "style_prefs", "custom",
                      "background", "story_concept", "characters"}

Stamp == "t"           \* datetime.now().isoformat()

\* ------------------------------------------------------ merge policy
\* existing is <<>> for None and <<value>> otherwise; new_data is
\* [kind |-> "list" | "item" | "dict", v |-> value].  A stored block has the
\* type its policy produces, so isinstance(existing, list/dict) is "present".
\* A list field of a request body is [null |-> BOOLEAN, v |-> list], so that
\* JSON null and [] differ; the lists the policies store are plain sequences.
NullList == [null |-> TRUE, v |-> <<>>]
L(xs) == [null |-> FALSE, v |-> xs]
\* (new_data.get(k, []) or [])
OrEmpty(d, k) == IF Has(d, k) /\ ~d[k].null THEN d[k].v ELSE <<>>

ExistingList(existing) == IF Len(existing) > 0 THEN existing[1] ELSE <<>>
ExistingDict(existing) == IF Len(existing) > 0 THEN existing[1] ELSE EmptyDict

\* a replace that keeps the previous fields the new data does not name
MergeReplaceKeepOld(existing, new_data) ==
  IF new_data.kind = "dict" THEN Merge(ExistingDict(existing), new_data.v) ELSE new_data.v

\* blueprint, background, story_concept, characters
MergeReplace(existing, new_data) == new_data.v

\* a list policy that puts the new items first
MergeListPrepend(existing, new_data) ==
  IF new_data.kind = "list" THEN new_data.v \o ExistingList(existing)
  ELSE <<new_data.v>> \o ExistingList(existing)

\* player_hooks, story_facts
MergeList(existing, new_data) ==
  IF new_data.kind = "list" THEN ExistingList(existing) \o new_data.v
  ELSE Append(ExistingList(existing), new_data.v)

\* a world_seeds policy that lets a named field replace the stored one
MergeWorldSeedsOverwrite(existing, new_data) ==
  [k \in {"factions", "locations", "constraints"} |->
     IF Has(new_data.v, k) THEN OrEmpty(new_data.v, k)
     ELSE Get(ExistingDict(existing), k, <<>>)]

\* world_seeds
MergeWorldSeeds(existing, new_data) ==
  [k \in {"factions", "locations", "constraints"} |->
     Get(ExistingDict(existing), k, <<>>) \o OrEmpty(new_data.v, k)]

\* a style_prefs policy that lets the new doNots replace the stored one
MergeStylePrefsReplaceDoNots(existing, new_data) ==
  Put(Merge(ExistingDict(existing), new_data.v), "doNots", OrEmpty(new_data.v, "doNots"))

\* style_prefs
MergeStylePrefs(existing, new_data) ==
  Put(Merge(ExistingDict(existing), new_data.v), "doNots",
      Get(ExistingDict(existing), "doNots", <<>>) \o OrEmpty(new_data.v, "doNots"))

\* a custom policy without the nested merge of the embedded chain
MergeCustomShallow(existing, new_data) == Merge(ExistingDict(existing), new_data.v)

\* custom
MergeCustom(existing, new_data) ==
  LET ex_dict == ExistingDict(existing)
      nd == new_data.v
      merged_custom == Merge(ex_dict, nd)
  IN IF Has(nd, "macroChain") /\ ex_dict /= EmptyDict /\ Has(ex_dict, "macroChain")
     THEN Put(merged_custom, "macroChain", Merge(ex_dict["macroChain"], nd["macroChain"]))
     ELSE merged_custom

merge_context_data(existing, new_data, block_type) ==
  CASE block_type \in {"blueprint", "background", "story_concept", "characters"} ->
         MergeReplace(existing, new_data)
    [] block_type \in {"player_hooks", "story_facts"} -> MergeList(existing, new_data)
    [] block_type = "world_seeds" -> MergeWorldSeeds(existing, new_data)
    [] block_type = "style_prefs" -> MergeStylePrefs(existing, new_data)
    [] block_type = "custom" -> MergeCustom(existing, new_data)
    [] OTHER -> new_data.v

\* ------------------------------------------------- session contexts
ZeroMeta == [backgroundV |-> 0, charactersV |-> 0, macroSnapshotV |-> 0]

\* a new context that starts at version 1
FreshContextVersionOne(sid) ==
  [sessionId |-> sid, blocks |-> EmptyDict, locks |-> EmptyDict, meta |-> ZeroMeta,
   version |-> 1]

\* get_or_create_session_context: the new, empty context
FreshContext(sid) ==
  [sessionId |-> sid, blocks |-> EmptyDict, locks |-> EmptyDict, meta |-> ZeroMeta,
   version |-> 0]

\* get_or_create_session_context: "Ensure meta exists for existing sessions"
EnsureMeta(c) == IF Has(c, "meta") THEN c ELSE Put(c, "meta", ZeroMeta)

\* session_context['version'] = (session_context.get('version', 0) or 0) + 1
BumpVersion(c) == Put(c, "version", PyOr(Get(c, "version", 0), 0) + 1)

\* meta[key] = (meta.get(key, 0) or 0) + 1, creating meta when absent
BumpMeta(c, key) ==
  LET m == Get(c, "meta", EmptyDict)
  IN Put(c, "meta", Put(m, key, PyOr(Get(m, key, 0), 0) + 1))

BumpTypeCounter(c, block_type) ==
  CASE block_type = "background" -> BumpMeta(c, "backgroundV")
    [] block_type = "characters" -> BumpMeta(c, "charactersV")
    [] OTHER -> c

Optional(d, k) == IF Has(d, k) THEN <<d[k]>> ELSE <<>>
\* session_context.get('blocks', {})
Blocks(c) == Get(c, "blocks", EmptyDict)

\* an append that bumps no type counter
AppendComputeNoTypeCounter(c, block_type, data) ==
  LET blocks == Get(c, "blocks", EmptyDict)
      merged_data == merge_context_data(Optional(blocks, block_type), data, block_type)
  IN BumpVersion(Put(c, "blocks", Put(blocks, block_type, merged_data)))

\* an append that leaves a locked block as it is
AppendComputeRespectsLock(c, block_type, data) ==
  LET blocks == Get(c, "blocks", EmptyDict)
      merged_data == merge_context_data(Optional(blocks, block_type), data, block_type)
  IN IF Get(Get(c, "locks", EmptyDict), block_type, FALSE) THEN c
     ELSE BumpTypeCounter(BumpVersion(Put(c, "blocks", Put(blocks, block_type, merged_data))),
                          block_type)

\* append_context, between get_or_create_session_context and save_session_context
AppendCompute(c, block_type, data) ==
  LET blocks == Get(c, "blocks", EmptyDict)
      merged_data == merge_context_data(Optional(blocks, block_type), data, block_type)
  IN BumpTypeCounter(BumpVersion(Put(c, "blocks", Put(blocks, block_type, merged_data))),
                     block_type)

\* lock_context_block with the type counter bumped on unlock instead of lock
LockBlockComputeBumpOnUnlock(c, block_type, locked) ==
  LET c1 == BumpVersion(Put(c, "locks", Put(Get(c, "locks", EmptyDict), block_type, locked)))
  IN IF ~locked THEN BumpTypeCounter(c1, block_type) ELSE c1

\* lock_context_block, between get_or_create_session_context and save_session_context
LockBlockCompute(c, block_type, locked) ==
  LET c1 == BumpVersion(Put(c, "locks", Put(Get(c, "locks", EmptyDict), block_type, locked)))
  IN IF locked THEN BumpTypeCounter(c1, block_type) ELSE c1

\* a clear that also drops the locks
ClearComputeResetLocks(c) ==
  Put(Put(Put(c, "blocks", EmptyDict), "version", 0), "locks", EmptyDict)

\* clear_context, between get_or_create_session_context and save_session_context
ClearCompute(c) == Put(Put(c, "blocks", EmptyDict), "version", 0)

\* --------------------------------------------------- chains and scenes
NoneStr == "None"      \* Python None where a string is expected

\* lock_chain: "Find the macro chain - try session context first"; <<>> is None
FindChain(c, chain_id) ==
  LET mcs == Get(c, "macroChains", EmptyDict)
      embedded == Get(Get(Get(c, "blocks", EmptyDict), "custom", EmptyDict),
                      "macroChain", EmptyDict)
  IN IF mcs /= EmptyDict /\ Has(mcs, chain_id) THEN <<mcs[chain_id]>>
     ELSE IF Get(embedded, "chainId", NoneStr) = chain_id THEN <<embedded>>
     ELSE <<>>

\* a lock_chain validation that lets every transition through
LockChainErrorLenient(macro_chain, locked) == ""

\* lock_chain: "Validate current state"; "" when the transition is allowed
LockChainError(macro_chain, locked) ==
  LET current_status == Get(macro_chain, "status", "Draft")
  IN IF locked /\ current_status = "Locked" THEN "Macro chain is already locked"
     ELSE IF ~locked /\ current_status /= "Locked" THEN "Macro chain is not locked"
     ELSE ""

\* lock_chain: updated_chain
UpdatedChain(macro_chain, locked) ==
  LET u == Put(Put(macro_chain, "status", IF locked THEN "Locked" ELSE "Edited"),
               "version", PyOr(Get(macro_chain, "version", 1), 1) + 1)
  IN IF locked THEN Put(u, "lockedAt", Stamp) ELSE Del(u, "lockedAt")

\* the chain unlock cascade restricted to the Locked scene details
ChainCascadeHitsLockedOnly(details) ==
  {k \in DOMAIN details : Get(details[k], "status", NoneStr) = "Locked"}

\* lock_chain: the scene details the unlock cascade touches
ChainCascadeHits(details) ==
  {k \in DOMAIN details : details[k] /= EmptyDict /\ Get(details[k], "sceneId", "") /= ""}

\* the chain unlock cascade writing a status the models do not know
InvalidateStale(detail) ==
  Put(Put(detail, "status", "Stale"), "version", PyOr(Get(detail, "version", 0), 0) + 1)

\* lock_chain: scene_detail['status'] = 'NeedsRegen'; version = (version or 0) + 1
Invalidate(detail) ==
  Put(Put(detail, "status", "NeedsRegen"), "version", PyOr(Get(detail, "version", 0), 0) + 1)

\* a mirror that keeps the version the chain had before the lock call
MirrorChainStaleVersion(updated_chain) ==
  [chainId |-> updated_chain["chainId"],
   scenes |-> Get(updated_chain, "scenes", <<>>),
   status |-> updated_chain["status"],
   version |-> updated_chain["version"] - 1,
   lockedAt |-> Get(updated_chain, "lockedAt", NoneStr)]

\* lock_chain, "Keep UI in sync": the dict stored as blocks.custom.macroChain
\* (its timestamps other than lockedAt are left out, as in UpdatedChain)
MirrorChain(updated_chain) ==
  [chainId |-> updated_chain["chainId"],
   scenes |-> Get(updated_chain, "scenes", <<>>),
   status |-> updated_chain["status"],
   version |-> updated_chain["version"],
   lockedAt |-> Get(updated_chain, "lockedAt", NoneStr)]

\* lock_chain after validation: the context it saves and affectedScenes (the
\* code's list, in dict order without repetition, kept as a set)
LockChainCompute(c, chain_id, macro_chain, locked) ==
  LET updated_chain == UpdatedChain(macro_chain, locked)
      c1 == Put(c, "macroChains", Put(Get(c, "macroChains", EmptyDict), chain_id, updated_chain))
      blocks == Get(c1, "blocks", EmptyDict)
      custom == Get(blocks, "custom", EmptyDict)
      mirror == MirrorChain(updated_chain)
      c2 == Put(c1, "blocks", Put(blocks, "custom", Put(custom, "macroChain", mirror)))
      details == Get(c2, "sceneDetails", EmptyDict)
      hits == IF ~locked /\ details /= EmptyDict THEN ChainCascadeHits(details) ELSE {}
      c3 == IF ~locked /\ details /= EmptyDict
            THEN Put(c2, "sceneDetails",
                     [k \in DOMAIN details |->
                        IF k \in hits THEN Invalidate(details[k]) ELSE details[k]])
            ELSE c2
  IN [ctx |-> c3, chain |-> updated_chain, affected |-> IF locked THEN {} ELSE hits]

\* a lock_scene validation that only looks the scene up
LockSceneErrorLenient(c, scene_id, locked) ==
  IF ~Has(Get(c, "sceneDetails", EmptyDict), scene_id) THEN "Scene detail not found" ELSE ""

\* lock_scene: "Find the scene detail" and "Validate current state"
LockSceneError(c, scene_id, locked) ==
  LET details == Get(c, "sceneDetails", EmptyDict)
  IN IF details = EmptyDict \/ ~Has(details, scene_id) THEN "Scene detail not found"
     ELSE LET current_status == Get(details[scene_id], "status", "Draft")
          IN IF locked /\ current_status = "Locked" THEN "Scene is already locked"
             ELSE IF ~locked /\ current_status /= "Locked" THEN "Scene is not locked"
             ELSE ""

\* lock_scene: updated_detail
UpdatedDetail(scene_detail, locked) ==
  LET u == Put(Put(scene_detail, "status", IF locked THEN "Locked" ELSE "NeedsRegen"),
               "version", PyOr(Get(scene_detail, "version", 1), 1) + 1)
  IN IF locked THEN Put(u, "lockedAt", Stamp) ELSE u

\* the scene unlock cascade with the scene's own sequence included
SceneCascadeHitsFromSame(details, current_sequence) ==
  {k \in DOMAIN details : /\ Get(details[k], "sequence", 0) >= current_sequence
                          /\ Get(details[k], "status", NoneStr) = "Locked"}

\* the scene unlock cascade without the Locked condition
SceneCascadeHitsAnyStatus(details, current_sequence) ==
  {k \in DOMAIN details : Get(details[k], "sequence", 0) > current_sequence}

\* lock_scene: the later-sequenced locked scenes the unlock cascade touches
SceneCascadeHits(details, current_sequence) ==
  {k \in DOMAIN details : /\ Get(details[k], "sequence", 0) > current_sequence
                          /\ Get(details[k], "status", NoneStr) = "Locked"}

\* lock_scene after validation: the context it saves and affectedScenes
LockSceneCompute(c, scene_id, locked) ==
  LET scene_detail == c["sceneDetails"][scene_id]
      updated_detail == UpdatedDetail(scene_detail, locked)
      details == Put(c["sceneDetails"], scene_id, updated_detail)
      hits == IF ~locked /\ details /= EmptyDict
              THEN SceneCascadeHits(details, Get(scene_detail, "sequence", 0)) ELSE {}
      after == [k \in DOMAIN details |->
                  IF k \in hits THEN Put(details[k], "status", "NeedsRegen") ELSE details[k]]
  IN [ctx |-> Put(c, "sceneDetails", after), detail |-> updated_detail, affected |-> hits]

\* -------------------------------------------------------- characters
\* next((i for i, c in enumerate(list) if c.get('id') == id), -1), 1-based; 0 is -1
IndexOfId(list, id) ==
  LET hits == {i \in 1..Len(list) : Get(list[i], "id", NoneStr) = id}
  IN IF hits = {} THEN 0 ELSE CHOOSE i \in hits : \A j \in hits : i <= j

ReplaceAt(list, i, x) == [list EXCEPT ![i] = x]
RemoveAt(list, i) == SubSeq(list, 1, i - 1) \o SubSeq(list, i + 1, Len(list))

\* a 409 check that does not look at the background lock
GenerateErrorNoLockCheck(c) ==
  IF Get(Blocks(c), "background", EmptyDict) = EmptyDict
  THEN "Background must be locked before generating Characters."
  ELSE ""

\* generate_characters: the 409 check.  build_prompt_context yields a
\* background exactly when blocks.background is a non-empty dict.
GenerateError(c) ==
  LET bg == Get(Blocks(c), "background", EmptyDict)
      is_background_locked == Get(Get(c, "locks", EmptyDict), "background", FALSE)
  IN IF bg = EmptyDict \/ ~is_background_locked
     THEN "Background must be locked before generating Characters."
     ELSE ""

\* generate_characters: the context it saves, given the validated LLM answer
GenerateCompute(c, characters) ==
  LET characters_block == [list |-> characters, characters |-> characters,
                           locked |-> FALSE, version |-> Stamp]
  IN BumpVersion(Put(c, "blocks", Put(c["blocks"], "characters", characters_block)))

\* upsert_character: the 409 / 404 checks
UpsertError(c, character) ==
  LET characters_block == Get(Blocks(c), "characters", EmptyDict)
  IN IF characters_block = EmptyDict \/ Get(characters_block, "list", <<>>) = <<>>
     THEN "Characters must be generated before editing."
     ELSE IF Get(characters_block, "locked", FALSE)
     THEN "Characters are locked and cannot be edited."
     ELSE IF IndexOfId(characters_block["list"], Get(character, "id", NoneStr)) = 0
     THEN "Character not found"
     ELSE ""

\* upsert_character: the context it saves
UpsertCompute(c, character) ==
  LET characters_block == c["blocks"]["characters"]
      list == characters_block["list"]
      i == IndexOfId(list, Get(character, "id", NoneStr))
      block == Put(Put(characters_block, "list", ReplaceAt(list, i, character)), "version", Stamp)
  IN BumpVersion(Put(c, "blocks", Put(c["blocks"], "characters", block)))

\* delete_character: the 404 checks
DeleteError(c, id) ==
  LET characters_block == Get(Blocks(c), "characters", EmptyDict)
  IN IF characters_block = EmptyDict THEN "No characters found"
     ELSE IF IndexOfId(Get(characters_block, "list", <<>>), id) = 0 THEN "Character not found"
     ELSE ""

\* delete_character: the context it saves
DeleteCompute(c, id) ==
  LET characters_block == c["blocks"]["characters"]
      list == characters_block["list"]
      block == Put(Put(characters_block, "list", RemoveAt(list, IndexOfId(list, id))),
                   "version", Stamp)
  IN BumpVersion(Put(c, "blocks", Put(c["blocks"], "characters", block)))

\* save_srd2014_character: the context it saves
SrdSaveCompute(c, character) ==
  LET blocks == Blocks(c)
      sheet == Get(blocks, "srd2014Characters", [characters |-> <<>>, version |-> Stamp])
      list == sheet["characters"]
      i == IndexOfId(list, Get(character, "id", NoneStr))
      list2 == IF i > 0 THEN ReplaceAt(list, i, Put(character, "updatedAt", Stamp))
               ELSE Append(list, Put(Put(character, "createdAt", Stamp), "updatedAt", Stamp))
      sheet2 == Put(Put(sheet, "characters", list2), "version", Stamp)
  IN BumpVersion(Put(c, "blocks", Put(blocks, "srd2014Characters", sheet2)))

\* delete_srd2014_character: the 404 checks
SrdDeleteError(c, id) ==
  LET list == Get(Get(Blocks(c), "srd2014Characters", EmptyDict), "characters", <<>>)
  IN IF list = <<>> THEN "No saved character sheets found"
     ELSE IF IndexOfId(list, id) = 0 THEN "Character sheet not found"
     ELSE ""

\* delete_srd2014_character: the context it saves
SrdDeleteCompute(c, id) ==
  LET sheet == c["blocks"]["srd2014Characters"]
      list == sheet["characters"]
      sheet2 == Put(Put(sheet, "characters", RemoveAt(list, IndexOfId(list, id))), "version", Stamp)
  IN BumpVersion(Put(c, "blocks", Put(c["blocks"], "srd2014Characters", sheet2)))

\* is_chain_locked after get_or_create_session_context: the truth value of
\* `chain and chain.get('status') == 'Locked'`, where chain is
\* macroChains.get(chain_id) or, when that is None or empty,
\* blocks.custom.macroChain
is_chain_locked(c, chain_id) ==
  LET by_id == Get(Get(c, "macroChains", EmptyDict), chain_id, EmptyDict)
      embedded == Get(Get(Blocks(c), "custom", EmptyDict), "macroChain", EmptyDict)
      chain == IF by_id /= EmptyDict THEN by_id ELSE embedded
  IN chain /= EmptyDict /\ Get(chain, "status", NoneStr) = "Locked"

\* update_session_context: updated_context
UpdateCompute(existing_context, updates) ==
  LET old_blocks == Get(existing_context, "blocks", EmptyDict)
      new_blocks == Get(updates, "blocks", EmptyDict)
      merged_blocks ==
        [k \in (DOMAIN old_blocks) \cup (DOMAIN new_blocks) |->
           IF ~Has(new_blocks, k) THEN old_blocks[k]
           ELSE IF k = "custom" /\ Has(old_blocks, "custom")
                THEN Merge(old_blocks["custom"], new_blocks["custom"])
                ELSE new_blocks[k]]
      merged_macro_chains ==
        Merge(Get(existing_context, "macroChains", EmptyDict),
              Get(updates, "macroChains", EmptyDict))
  IN Put(Put(Merge(existing_context, updates), "blocks", merged_blocks),
         "macroChains", merged_macro_chains)

\* ------------------------------------------------------------ storage
\* load_all_session_contexts: {} when the file is absent or does not parse
ReadAll == IF fstate = "ok" THEN store ELSE EmptyDict

\* lock_key = f"session_{session_id}"
LockKey(sid) == "session_" \o sid

\* lock_key in _session_locks
LockHeldNever(locks, key) == FALSE
LockHeld(locks, key) == key \in DOMAIN locks

\* ----------------------------------------------------------- requests
NoData == [kind |-> "item", v |-> "-"]
Request(op, sid, btype, locked, data, id) ==
  [op |-> op, sid |-> sid, btype |-> btype, locked |-> locked, data |-> data, id |-> id]
NoRequest == Request("none", "-", "-", FALSE, NoData, "-")
NoPre == [found |-> FALSE, created |-> FALSE, c |-> EmptyDict]
\* value is the truth value of what a query returned
NoRes == [ok |-> FALSE, err |-> "", affected |-> {}, waited |-> FALSE, value |-> FALSE]

\* handlers that start with get_or_create_session_context
GocOps == {"append", "lock_block", "clear", "lock_scene",
           "generate", "upsert", "delete_character", "srd_save", "srd_delete",
           "get_or_create", "is_chain_locked"}

\* what the LLM call of generate_characters yields: an answer that fails the
\* handler's validation (<<>>), or a validated character list with fresh ids
LLMAnswers == {<<>>, <<[id |-> "g1", name |-> "Ann"], [id |-> "g2", name |-> "Bob"]>>}
\* handlers that start with load_session_context
LoadOps == GocOps \cup {"lock_chain"}

\* the 400 / ValueError checks made before the first await
ValidationError(r) ==
  CASE r.op = "append" /\ r.btype \notin RouterBlockTypes -> "Invalid blockType"
    [] r.op = "lock_block" /\ r.btype \notin RouterBlockTypes -> "Invalid blockType"
    [] r.op = "lock_block" /\ r.btype \notin VALID_BLOCK_TYPES -> "Invalid blockType"
    [] r.op \in {"upsert", "srd_save"} /\ r.data.kind /= "dict" -> "character is required"
    [] OTHER -> ""

\* ------------------------------------------------ handler fragments
\* Each fragment gives pc', ctx', cont', attempts', slocks' and res' for
\* handler p, continuing from the lock map locks.

\* the handler raises
Fail(p, locks, e) ==
  /\ pc' = [pc EXCEPT ![p] = "idle"]
  /\ res' = [res EXCEPT ![p] = [ok |-> FALSE, err |-> e, affected |-> {}, waited |-> res[p].waited,
                                value |-> FALSE]]
  /\ slocks' = locks
  /\ attempts' = [attempts EXCEPT ![p] = 0]
  /\ UNCHANGED <<ctx, cont>>

\* the handler returns
Return(p, locks) ==
  /\ pc' = [pc EXCEPT ![p] = "idle"]
  /\ res' = [res EXCEPT ![p].ok = TRUE]
  /\ slocks' = locks
  /\ attempts' = [attempts EXCEPT ![p] = 0]
  /\ UNCHANGED <<ctx, cont>>

\* a query returns c and a value of truth value v
ReturnValue(p, locks, c, v) ==
  /\ pc' = [pc EXCEPT ![p] = "idle"]
  /\ res' = [res EXCEPT ![p].ok = TRUE, ![p].value = v]
  /\ ctx' = [ctx EXCEPT ![p] = c]
  /\ slocks' = locks
  /\ attempts' = [attempts EXCEPT ![p] = 0]
  /\ UNCHANGED cont

\* save_session_context(sid, c), up to its first suspension: the lock is
\* taken at once when free, else the caller starts to poll
SaveEnter(p, locks, c, k, aff) ==
  LET key == LockKey(req[p].sid)
  IN /\ ctx' = [ctx EXCEPT ![p] = c]
     /\ cont' = [cont EXCEPT ![p] = k]
     /\ res' = [res EXCEPT ![p] = [ok |-> FALSE, err |-> "", affected |-> aff, waited |-> FALSE,
                                   value |-> FALSE]]
     /\ attempts' = [attempts EXCEPT ![p] = 0]
     /\ IF LockHeld(locks, key)
        THEN /\ pc' = [pc EXCEPT ![p] = "wait"]
             /\ slocks' = locks
        ELSE /\ pc' = [pc EXCEPT ![p] = "sv_read"]
             /\ slocks' = Put(locks, key, p)

\* the handler's code after get_or_create_session_context returned c
AfterGoc(p, locks, c) ==
  LET r == req[p]
  IN CASE r.op = "append" ->
            SaveEnter(p, locks, AppendCompute(c, r.btype, r.data), "final", {})
       [] r.op = "lock_block" ->
            SaveEnter(p, locks, LockBlockCompute(c, r.btype, r.locked), "final", {})
       [] r.op = "clear" ->
            SaveEnter(p, locks, ClearCompute(c), "final", {})
       [] r.op = "lock_scene" ->
            LET e == LockSceneError(c, r.id, r.locked)
            IN IF e /= "" THEN Fail(p, locks, e)
               ELSE LET out == LockSceneCompute(c, r.id, r.locked)
                    IN SaveEnter(p, locks, out.ctx, "final", out.affected)
       [] r.op = "generate" ->
            IF GenerateError(c) /= "" THEN Fail(p, locks, GenerateError(c))
            ELSE \E answer \in LLMAnswers :
                   IF answer = <<>> THEN Fail(p, locks, "Invalid JSON response from AI")
                   ELSE SaveEnter(p, locks, GenerateCompute(c, answer), "final", {})
       [] r.op = "upsert" ->
            IF UpsertError(c, r.data.v) /= "" THEN Fail(p, locks, UpsertError(c, r.data.v))
            ELSE SaveEnter(p, locks, UpsertCompute(c, r.data.v), "final", {})
       [] r.op = "delete_character" ->
            IF DeleteError(c, r.id) /= "" THEN Fail(p, locks, DeleteError(c, r.id))
            ELSE SaveEnter(p, locks, DeleteCompute(c, r.id), "final", {})
       [] r.op = "srd_save" ->
            SaveEnter(p, locks, SrdSaveCompute(c, r.data.v), "final", {})
       [] r.op = "srd_delete" ->
            IF SrdDeleteError(c, r.id) /= "" THEN Fail(p, locks, SrdDeleteError(c, r.id))
            ELSE SaveEnter(p, locks, SrdDeleteCompute(c, r.id), "final", {})
       [] r.op = "get_or_create" ->
            ReturnValue(p, locks, c, c /= EmptyDict)
       [] r.op = "is_chain_locked" ->
            ReturnValue(p, locks, c, is_chain_locked(c, r.id))

\* lock_chain once macro_chain is known (<<>> is None)
AfterFind(p, locks, c, found) ==
  LET r == req[p]
  IN IF Len(found) = 0 \/ found[1] = EmptyDict
     THEN Fail(p, locks, "Macro chain not found. Generate a chain first.")
     ELSE LET e == LockChainError(found[1], r.locked)
          IN IF e /= "" THEN Fail(p, locks, e)
             ELSE LET out == LockChainCompute(c, r.id, found[1], r.locked)
                  IN SaveEnter(p, locks, out.ctx, "final", out.affected)

\* ------------------------------------------------------------ actions
\* A request arrives: the handler runs up to its first file read.
Begin(p, r) ==
  /\ pc[p] = "idle"
  /\ nops' = nops + 1
  /\ req' = [req EXCEPT ![p] = r]
  /\ pre' = [pre EXCEPT ![p] = NoPre]
  /\ ctx' = [ctx EXCEPT ![p] = EmptyDict]
  /\ allc' = [allc EXCEPT ![p] = EmptyDict]
  /\ cont' = [cont EXCEPT ![p] = "final"]
  /\ attempts' = [attempts EXCEPT ![p] = 0]
  /\ LET e == ValidationError(r)
     IN IF e /= ""
        THEN /\ pc' = [pc EXCEPT ![p] = "idle"]
             /\ res' = [res EXCEPT ![p] = [NoRes EXCEPT !.err = e]]
        ELSE /\ pc' = [pc EXCEPT ![p] = IF r.op = "update" THEN "up_read" ELSE "load"]
             /\ res' = [res EXCEPT ![p] = NoRes]
  /\ UNCHANGED <<fstate, store, chains, slocks>>

\* load_session_context: the worker thread reads context.json
Load(p) ==
  /\ pc[p] = "load"
  /\ LET all_contexts == ReadAll
         sid == req[p].sid
         found == Has(all_contexts, sid)
     IN pre' = [pre EXCEPT ![p] = [found |-> found, created |-> FALSE,
                                   c |-> IF found THEN all_contexts[sid] ELSE EmptyDict]]
  /\ pc' = [pc EXCEPT ![p] = "loaded"]
  /\ UNCHANGED <<fstate, store, chains, slocks, req, ctx, allc, attempts, cont, res, nops>>

\* The handler resumes with the loaded context and runs to its next suspension.
Loaded(p) ==
  /\ pc[p] = "loaded"
  /\ LET r == req[p]
     IN IF r.op \in GocOps
        THEN IF pre[p].found
             THEN /\ pre' = [pre EXCEPT ![p].c = EnsureMeta(pre[p].c)]
                  /\ AfterGoc(p, slocks, EnsureMeta(pre[p].c))
             ELSE /\ pre' = pre
                  /\ SaveEnter(p, slocks, FreshContext(r.sid), "create", {})
        ELSE \* lock_chain
             /\ pre' = pre
             /\ IF ~pre[p].found THEN Fail(p, slocks, "Session not found")
                ELSE LET found == FindChain(pre[p].c, r.id)
                     IN IF Len(found) > 0 /\ found[1] /= EmptyDict
                        THEN AfterFind(p, slocks, pre[p].c, found)
                        ELSE /\ pc' = [pc EXCEPT ![p] = "lc_legacy"]
                             /\ UNCHANGED <<ctx, cont, attempts, slocks, res>>
  /\ UNCHANGED <<fstate, store, chains, req, allc, nops>>

\* lock_chain: load_chain reads chains.json; a legacy chain is migrated into
\* the session and saved before the lock request goes on
LegacyRead(p) ==
  /\ pc[p] = "lc_legacy"
  /\ LET r == req[p]
         c == pre[p].c
     IN IF Has(chains, r.id) /\ chains[r.id] /= EmptyDict
        THEN SaveEnter(p, slocks,
                       Put(c, "macroChains", Put(Get(c, "macroChains", EmptyDict), r.id, chains[r.id])),
                       "migrate", {})
        ELSE Fail(p, slocks, "Macro chain not found. Generate a chain first.")
  /\ UNCHANGED <<fstate, store, chains, req, pre, allc, nops>>

\* save_session_context: one wake-up from asyncio.sleep(0.1) in the wait loop
TimeoutError(p) ==
  IF cont[p] = "migrate"   \* lock_chain swallows the error of the migration save
  THEN "Macro chain not found. Generate a chain first."
  ELSE "Session context save timeout"

\* while lock_key in _session_locks and attempts < 10
KeepWaitingOffByOne(n) == n <= MaxAttempts
KeepWaiting(n) == n < MaxAttempts

Poll(p) ==
  /\ pc[p] = "wait"
  /\ LET key == LockKey(req[p].sid)
         n == attempts[p] + 1
     IN IF ~LockHeld(slocks, key)
        THEN /\ slocks' = Put(slocks, key, p)
             /\ pc' = [pc EXCEPT ![p] = "sv_read"]
             /\ attempts' = [attempts EXCEPT ![p] = 0]   \* not read after the loop
             /\ res' = [res EXCEPT ![p].waited = TRUE]
             /\ UNCHANGED <<ctx, cont>>
        ELSE IF KeepWaiting(n)
        THEN /\ attempts' = [attempts EXCEPT ![p] = n]
             /\ UNCHANGED <<slocks, pc, ctx, cont, res>>
        ELSE /\ pc' = [pc EXCEPT ![p] = "idle"]
             /\ res' = [res EXCEPT ![p] = [ok |-> FALSE, err |-> TimeoutError(p),
                                           affected |-> {}, waited |-> TRUE, value |-> FALSE]]
             /\ attempts' = [attempts EXCEPT ![p] = 0]
             /\ UNCHANGED <<slocks, ctx, cont>>
  /\ UNCHANGED <<fstate, store, chains, req, pre, allc, nops>>

\* a finally block that leaves the entry in place
ReleaseNothing(locks, key) == locks

\* finally: _session_locks.pop(lock_key, None)
Release(locks, key) == Del(locks, key)

\* what the caller raises when the save raised 'Failed to save session context'
SaveError(p) ==
  IF cont[p] = "migrate"   \* lock_chain swallows the error of the migration save
  THEN "Macro chain not found. Generate a chain first."
  ELSE "Failed to save session context"

\* save_session_context: the open or the write of context.json raises (the
\* file stays as the failed call left it); except, finally, and the caller's
\* handling of the exception
SvError(p) ==
  /\ pc[p] \in {"sv_trunc", "sv_flush"}
  /\ allc' = [allc EXCEPT ![p] = EmptyDict]
  /\ Fail(p, Release(slocks, LockKey(req[p].sid)), SaveError(p))
  /\ UNCHANGED <<fstate, store, chains, req, pre, nops>>

\* save_session_context: all_contexts = await load_all_session_contexts()
SvRead(p) ==
  /\ pc[p] = "sv_read"
  /\ allc' = [allc EXCEPT ![p] = Put(ReadAll, req[p].sid, ctx[p])]
  /\ pc' = [pc EXCEPT ![p] = "sv_trunc"]
  /\ UNCHANGED <<fstate, store, chains, slocks, req, pre, ctx, attempts, cont, res, nops>>

\* save_session_context: aiofiles.open(CONTEXT_FILE, 'w') truncates the file
SvTrunc(p) ==
  /\ pc[p] = "sv_trunc"
  /\ fstate' = "broken"
  /\ pc' = [pc EXCEPT ![p] = "sv_flush"]
  /\ UNCHANGED <<store, chains, slocks, req, pre, ctx, allc, attempts, cont, res, nops>>

\* save_session_context: the dump of all_contexts reaches the file
SvFlush(p) ==
  /\ pc[p] = "sv_flush"
  /\ fstate' = "ok"
  /\ store' = allc[p]
  /\ allc' = [allc EXCEPT ![p] = EmptyDict]
  /\ pc' = [pc EXCEPT ![p] = "sv_done"]
  /\ UNCHANGED <<chains, slocks, req, pre, ctx, attempts, cont, res, nops>>

\* save_session_context: the finally block releases the lock, and the caller
\* runs on to its next suspension or to its return
SvRelease(p) ==
  /\ pc[p] = "sv_done"
  /\ LET locks == Release(slocks, LockKey(req[p].sid))
     IN CASE cont[p] = "final" ->
               /\ pre' = pre
               /\ Return(p, locks)
          [] cont[p] = "create" ->
               /\ pre' = [pre EXCEPT ![p] = [found |-> TRUE, created |-> TRUE, c |-> ctx[p]]]
               /\ AfterGoc(p, locks, ctx[p])
          [] cont[p] = "migrate" ->
               /\ pre' = pre
               /\ AfterFind(p, locks, ctx[p], <<chains[req[p].id]>>)
  /\ UNCHANGED <<fstate, store, chains, req, allc, nops>>

\* update_session_context: reads the file, merges the updates
UpRead(p) ==
  /\ pc[p] = "up_read"
  /\ LET all_contexts == ReadAll
         sid == req[p].sid
     IN IF ~Has(all_contexts, sid) \/ all_contexts[sid] = EmptyDict
        THEN /\ Fail(p, slocks, "Failed to update session context")
             /\ UNCHANGED <<pre, allc>>
        ELSE LET updated_context == UpdateCompute(all_contexts[sid], req[p].data.v)
             IN /\ pre' = [pre EXCEPT ![p] = [found |-> TRUE, created |-> FALSE,
                                              c |-> all_contexts[sid]]]
                /\ ctx' = [ctx EXCEPT ![p] = updated_context]
                /\ allc' = [allc EXCEPT ![p] = Put(all_contexts, sid, updated_context)]
                /\ pc' = [pc EXCEPT ![p] = "up_trunc"]
                /\ UNCHANGED <<slocks, attempts, cont, res>>
  /\ UNCHANGED <<fstate, store, chains, req, nops>>

\* update_session_context: aiofiles.open(CONTEXT_FILE, 'w') truncates the file
UpTrunc(p) ==
  /\ pc[p] = "up_trunc"
  /\ fstate' = "broken"
  /\ pc' = [pc EXCEPT ![p] = "up_flush"]
  /\ UNCHANGED <<store, chains, slocks, req, pre, ctx, allc, attempts, cont, res, nops>>

\* update_session_context: the dump reaches the file and the call returns
UpFlush(p) ==
  /\ pc[p] = "up_flush"
  /\ fstate' = "ok"
  /\ store' = allc[p]
  /\ allc' = [allc EXCEPT ![p] = EmptyDict]
  /\ pre' = pre
  /\ Return(p, slocks)
  /\ UNCHANGED <<chains, req, nops>>

\* ------------------------------------------- concurrent requests: Spec
Item(x) == [kind |-> "item", v |-> x]
List(xs) == [kind |-> "list", v |-> xs]
Dict(d) == [kind |-> "dict", v |-> d]

\* the session stored before the first request
SeedS1 ==
  [sessionId |-> "s1", blocks |-> [player_hooks |-> <<"h0">>], locks |-> EmptyDict,
   meta |-> ZeroMeta, version |-> 1]

\* the requests of Spec, one family per kind of payload
ConcAppends ==
  {Request("append", "s1", "player_hooks", FALSE, Item(x), "-") : x \in {"a", "b"}}
  \cup {Request("append", "s2", "player_hooks", FALSE, Item("a"), "-")}
ConcUpdates ==
  {Request("update", "s1", "-", FALSE, Dict([blocks |-> [background |-> "bg"]]), "-")}

InitProcs ==
  /\ slocks = EmptyDict
  /\ pc = [p \in Procs |-> "idle"]
  /\ req = [p \in Procs |-> NoRequest]
  /\ pre = [p \in Procs |-> NoPre]
  /\ ctx = [p \in Procs |-> EmptyDict]
  /\ allc = [p \in Procs |-> EmptyDict]
  /\ attempts = [p \in Procs |-> 0]
  /\ cont = [p \in Procs |-> "final"]
  /\ res = [p \in Procs |-> NoRes]
  /\ nops = 0

Init ==
  /\ fstate = "ok"
  /\ store = [s \in {"s1"} |-> SeedS1]
  /\ chains = EmptyDict
  /\ InitProcs

\* Handlers are interchangeable, so the idle handlers are used in index order.
Start(p) ==
  /\ nops < MaxOps
  /\ \A q \in Procs : q < p => req[q].op /= "none"
  /\ \/ \E r \in ConcAppends : Begin(p, r)
     \/ \E r \in ConcUpdates : Begin(p, r)

Next ==
  \E p \in Procs :
    \/ Start(p)
    \/ Load(p)
    \/ Loaded(p)
    \/ Poll(p)
    \/ SvRead(p)
    \/ SvTrunc(p)
    \/ SvFlush(p)
    \/ SvRelease(p)
    \/ UpRead(p)
    \/ UpTrunc(p)
    \/ UpFlush(p)

Spec == Init /\ [][Next]_vars

\* ---------------------------------- one request at a time: SpecSeq
Statuses == {"Draft", "Generated", "Edited", "Locked", "NeedsRegen"}
SeedStatuses == {"Generated", "Locked"}
SceneIds == {"sc1", "sc2", "sc3", "sc4"}

\* A stored scene detail.  sc1 has no sequence (read as 0), sc3 and sc4 share
\* one; the versions cover 0, absent and positive.
SeedScene(id, status) ==
  LET base == [sceneId |-> id, status |-> status]
      locked == IF status = "Locked" THEN Put(base, "lockedAt", Stamp) ELSE base
  IN CASE id = "sc1" -> Put(locked, "version", 1)
       [] id = "sc2" -> Put(Put(locked, "version", 0), "sequence", 1)
       [] id = "sc3" -> Put(locked, "sequence", 2)
       [] OTHER -> Put(Put(locked, "version", 5), "sequence", 2)

SeedCharacters == <<[id |-> "k1", name |-> "Kay"], [id |-> "k2", name |-> "Lee"]>>

SeedChain(id, status, version) ==
  LET base == [chainId |-> id, status |-> status, version |-> version, scenes |-> <<"sc1", "sc2">>]
  IN IF status = "Locked" THEN Put(base, "lockedAt", Stamp) ELSE base

\* chain c1 lives in macroChains, c2 only in blocks.custom.macroChain, c3 only
\* in the legacy chains.json
SeedSeq(chain_status, scene_status) ==
  [sessionId |-> "s1",
   blocks |-> [custom |-> [macroChain |-> SeedChain("c2", "Locked", 0), note |-> "n"],
               player_hooks |-> <<"h0">>,
               background |-> [premise |-> "p0"],
               characters |-> [list |-> SeedCharacters, characters |-> SeedCharacters,
                               locked |-> FALSE, version |-> Stamp],
               srd2014Characters |-> [characters |-> SeedCharacters, version |-> Stamp]],
   locks |-> EmptyDict,
   meta |-> [backgroundV |-> 1, charactersV |-> 0, macroSnapshotV |-> 0],
   version |-> 3,
   macroChains |-> [c \in {"c1"} |-> SeedChain("c1", chain_status, 1)],
   sceneDetails |-> [k \in SceneIds |-> SeedScene(k, scene_status[k])]]

LegacyChains == [c \in {"c3"} |-> [chainId |-> "c3", status |-> "Generated", scenes |-> <<"sc1">>]]

InitSeq ==
  /\ fstate = "ok"
  /\ \E cs \in SeedStatuses, ss \in [SceneIds -> SeedStatuses] :
       store = [s \in {"s1"} |-> SeedSeq(cs, ss)]
  /\ chains = LegacyChains
  /\ InitProcs

SeqPlain ==
  {Request("append", "s1", "player_hooks", FALSE, Item("a"), "-"),
   Request("append", "s1", "world_state", FALSE, Item("w"), "-"),
   Request("lock_block", "s2", "background", TRUE, NoData, "-"),
   Request("lock_block", "s1", "player_hooks", TRUE, NoData, "-"),
   Request("get_or_create", "s1", "-", FALSE, NoData, "-"),
   Request("get_or_create", "s2", "-", FALSE, NoData, "-"),
   Request("is_chain_locked", "s2", "-", FALSE, NoData, "c1"),
   Request("clear", "s1", "-", FALSE, NoData, "-"),
   Request("clear", "s2", "-", FALSE, NoData, "-"),
   Request("lock_chain", "s2", "-", TRUE, NoData, "c1"),
   Request("lock_scene", "s2", "-", TRUE, NoData, "sc1"),
   Request("generate", "s1", "-", FALSE, NoData, "-"),
   Request("generate", "s2", "-", FALSE, NoData, "-")}
  \cup {Request("lock_block", "s1", bt, l, NoData, "-") :
          bt \in {"background", "characters", "blueprint", "story_facts"}, l \in BOOLEAN}
  \cup {Request("lock_chain", "s1", "-", l, NoData, c) :
          c \in {"c1", "c2", "c3", "c9"}, l \in BOOLEAN}
  \cup {Request("is_chain_locked", "s1", "-", FALSE, NoData, c) : c \in {"c1", "c2", "c3", "c9"}}
  \cup {Request("lock_scene", "s1", "-", l, NoData, k) :
          k \in SceneIds \cup {"sc9"}, l \in BOOLEAN}
  \cup {Request(op, "s1", "-", FALSE, NoData, id) :
          op \in {"delete_character", "srd_delete"}, id \in {"k1", "zz"}}
SeqDicts ==
  {Request("append", "s1", "background", FALSE, Dict([premise |-> "p"]), "-")}
SeqCharacterBlocks ==
  {Request("append", "s1", "characters", FALSE,
           Dict([list |-> <<[id |-> "k9", name |-> "Zed"]>>, locked |-> FALSE]), "-")}
SeqCharacters ==
  {Request(op, "s1", "-", FALSE, Dict([id |-> id, name |-> "New"]), "-") :
     op \in {"upsert", "srd_save"}, id \in {"k1", "zz"}}

\* One handler serves the requests, each to completion before the next.
StartSeq(p) ==
  /\ p = 1
  /\ nops < MaxSeqOps
  /\ \/ \E r \in SeqPlain : Begin(p, r)
     \/ \E r \in SeqDicts : Begin(p, r)
     \/ \E r \in SeqCharacterBlocks : Begin(p, r)
     \/ \E r \in SeqCharacters : Begin(p, r)

NextSeq ==
  \E p \in Procs :
    \/ StartSeq(p)
    \/ Load(p)
    \/ Loaded(p)
    \/ LegacyRead(p)
    \/ SvRead(p)
    \/ SvTrunc(p)
    \/ SvFlush(p)
    \/ SvRelease(p)

SpecSeq == InitSeq /\ [][NextSeq]_vars

\* ------------------------------ appends one after another: SpecMerge
MaxMergeOps == 2       \* appends issued in one behaviour of SpecMerge

\* a stored session with a block of every merge policy
SeedMerge ==
  [sessionId |-> "s1",
   blocks |-> [blueprint |-> [theme |-> "th0", tone |-> "to0"],
               background |-> [premise |-> "p0", tone |-> "to0"],
               player_hooks |-> <<"h0", "h1">>,
               story_facts |-> <<"f0">>,
               world_seeds |-> [factions |-> <<"fa0">>, locations |-> <<>>,
                                constraints |-> <<"co0">>],
               style_prefs |-> [tone |-> "dark", pacing |-> "slow", doNots |-> <<"d0">>],
               custom |-> [macroChain |-> [chainId |-> "c2", status |-> "Locked", version |-> 0],
                           note |-> "n"]],
   locks |-> EmptyDict,
   meta |-> ZeroMeta,
   version |-> 1]

\* the session is stored with all its blocks, or not stored at all
InitMerge ==
  /\ fstate = "ok"
  /\ \/ store = [s \in {"s1"} |-> SeedMerge]
     \/ store = EmptyDict
  /\ chains = EmptyDict
  /\ InitProcs

AppendReq(bt, data) == Request("append", "s1", bt, FALSE, data, "-")

MergeItems ==
  {AppendReq(bt, Item(x)) : bt \in {"player_hooks", "story_facts", "blueprint"}, x \in {"a", "b"}}
MergeLists ==
  {AppendReq(bt, List(xs)) : bt \in {"player_hooks", "story_facts"},
                          xs \in {<<>>, <<"a">>, <<"b", "a">>}}
MergeReplaces ==
  {AppendReq(bt, Dict(d)) : bt \in {"blueprint", "background", "story_concept", "characters"},
                         d \in {[tone |-> "to1"], [tone |-> "to2"]}}
MergeSeeds ==
  {AppendReq("world_seeds", Dict([factions |-> L(<<"fa1">>), locations |-> NullList])),
   AppendReq("world_seeds", Dict([factions |-> L(<<>>), locations |-> L(<<"lo1", "lo2">>)]))}
MergeSeedsOne ==
  {AppendReq("world_seeds", Dict([constraints |-> L(<<"co1">>)])),
   AppendReq("world_seeds", Dict([constraints |-> NullList]))}
MergePrefs ==
  {AppendReq("style_prefs", Dict([tone |-> "light", doNots |-> L(<<"d1">>)])),
   AppendReq("style_prefs", Dict([tone |-> "grim", doNots |-> NullList]))}
MergePrefsOne ==
  {AppendReq("style_prefs", Dict([theme |-> "noir"]))}
MergeCustoms ==
  {AppendReq("custom", Dict([macroChain |-> [status |-> "Edited"], extra |-> "e"]))}
MergeCustomsOne ==
  {AppendReq("custom", Dict([note |-> "m"]))}

StartMerge(p) ==
  /\ p = 1
  /\ nops < MaxMergeOps
  /\ \/ \E r \in MergeItems : Begin(p, r)
     \/ \E r \in MergeLists : Begin(p, r)
     \/ \E r \in MergeReplaces : Begin(p, r)
     \/ \E r \in MergeSeeds : Begin(p, r)
     \/ \E r \in MergeSeedsOne : Begin(p, r)
     \/ \E r \in MergePrefs : Begin(p, r)
     \/ \E r \in MergePrefsOne : Begin(p, r)
     \/ \E r \in MergeCustoms : Begin(p, r)
     \/ \E r \in MergeCustomsOne : Begin(p, r)

NextMerge ==
  \E p \in Procs :
    \/ StartMerge(p)
    \/ Load(p)
    \/ Loaded(p)
    \/ SvRead(p)
    \/ SvTrunc(p)
    \/ SvFlush(p)
    \/ SvRelease(p)

SpecMerge == InitMerge /\ [][NextMerge]_vars

\* ------------------------ concurrent requests with failing writes: SpecIO
MaxIOOps == 2          \* requests issued in one behaviour of SpecIO

StartIO(p) ==
  /\ nops < MaxIOOps
  /\ \A q \in Procs : q < p => req[q].op /= "none"
  /\ \/ \E r \in ConcAppends : Begin(p, r)
     \/ \E r \in ConcUpdates : Begin(p, r)

NextIO ==
  \E p \in Procs :
    \/ StartIO(p)
    \/ Load(p)
    \/ Loaded(p)
    \/ Poll(p)
    \/ SvRead(p)
    \/ SvTrunc(p)
    \/ SvFlush(p)
    \/ SvError(p)
    \/ SvRelease(p)
    \/ UpRead(p)
    \/ UpTrunc(p)
    \/ UpFlush(p)

SpecIO == Init /\ [][NextIO]_vars

\* ================================================== claims under Spec
\* save_session_context's critical section: from setting the lock entry to
\* popping it in the finally block
InSave(p) == pc[p] \in {"sv_read", "sv_trunc", "sv_flush", "sv_done"}
Writing(p) == pc[p] \in {"sv_trunc", "sv_flush", "up_trunc", "up_flush"}
Finished(p, op) == pc[p] = "idle" /\ req[p].op = op
Hooks(c) == Get(Get(c, "blocks", EmptyDict), "player_hooks", <<>>)

\* C1: when two append requests for the same session are the only requests
\* and both have completed successfully, the stored session holds both
\* appended items after the seed's and its version has grown by 2.
C1_NoLostUpdate ==
  \A p, q \in Procs :
    (/\ p /= q /\ nops = 2
     /\ Finished(p, "append") /\ Finished(q, "append")
     /\ req[p].sid = "s1" /\ req[q].sid = "s1"
     /\ res[p].ok /\ res[q].ok)
    => /\ fstate = "ok" /\ Has(store, "s1")
       /\ Hooks(store["s1"]) \in {Hooks(SeedS1) \o <<req[p].data.v, req[q].data.v>>,
                                  Hooks(SeedS1) \o <<req[q].data.v, req[p].data.v>>}
       /\ store["s1"]["version"] = SeedS1["version"] + 2

\* C2: at most one save_session_context call per session is inside its
\* critical section, and the lock entry of that session is the caller's.
C2_MutualExclusion ==
  \A p, q \in Procs :
    /\ InSave(p) => /\ LockKey(req[p].sid) \in DOMAIN slocks
                    /\ slocks[LockKey(req[p].sid)] = p
    /\ (p /= q /\ InSave(p) /\ InSave(q)) => req[p].sid /= req[q].sid

\* C2 witness: after a release, one of two callers that waited for the same
\* session has taken the lock and the other still waits.
C2_Witness ==
  \E p, q, h \in Procs :
    /\ p /= q /\ h /= p /\ h /= q
    /\ req[p].sid = req[q].sid /\ req[h].sid = req[p].sid
    /\ pc[h] = "idle" /\ res[h].ok
    /\ InSave(p) /\ res[p].waited
    /\ pc[q] = "wait" /\ attempts[q] > 0

\* C3: whoever writes the context file for a session holds that session's
\* lock entry.
C3_WritesHoldLock ==
  \A p \in Procs :
    Writing(p) => /\ LockKey(req[p].sid) \in DOMAIN slocks
                  /\ slocks[LockKey(req[p].sid)] = p

\* C4: a waiting save polls at most 10 times; a poll that finds the lock free
\* takes it and goes on to the write; the 10th poll that finds it held fails
\* with the timeout, and no poll of a waiting call changes the file or
\* another caller's lock entry.
C4_PollStep(p) ==
  LET key == LockKey(req[p].sid)
  IN (pc[p] = "wait" /\ <<pc[p], attempts[p]>>' /= <<pc[p], attempts[p]>>)
     => /\ fstate' = fstate /\ store' = store
        /\ IF ~(key \in DOMAIN slocks)
           THEN pc'[p] = "sv_read" /\ slocks' = Put(slocks, key, p)
           ELSE /\ slocks' = slocks
                /\ IF attempts[p] + 1 < 10
                   THEN pc'[p] = "wait" /\ attempts'[p] = attempts[p] + 1
                   ELSE /\ pc'[p] = "idle" /\ ~res'[p].ok
                        /\ res'[p].err = "Session context save timeout"

Locks(c) == Get(c, "locks", EmptyDict)
Details(c) == Get(c, "sceneDetails", EmptyDict)
Sequence(d) == Get(d, "sequence", 0)
IsLocked(c, block_type) == Get(Locks(c), block_type, FALSE)
\* the request of p has returned successfully and its save is what is stored
Succeeded(p, op) ==
  /\ Finished(p, op) /\ res[p].ok
  /\ fstate = "ok" /\ Has(store, req[p].sid) /\ store[req[p].sid] = ctx[p]

\* C5: a lock request for a block that is already locked, and an unlock
\* request for a block that is not locked, fail and leave the session as it
\* was.
C5_RelockFails ==
  \A p \in Procs :
    (/\ Finished(p, "lock_block") /\ req[p].btype \in VALID_BLOCK_TYPES
     /\ pre[p].found /\ IsLocked(pre[p].c, req[p].btype) = req[p].locked)
    => /\ ~res[p].ok
       /\ Has(store, req[p].sid) /\ store[req[p].sid] = pre[p].c

\* C6: a successful lock of a valid block type sets locks[type], adds 1 to the
\* session version and 1 to the type's own counter (backgroundV, charactersV),
\* and leaves the blocks and the other locks alone.
C6_LockBlockEffect ==
  \A p \in Procs :
    (Finished(p, "lock_block") /\ res[p].ok /\ req[p].locked)
    => LET a == pre[p].c
           b == ctx[p]
           t == req[p].btype
       IN /\ Succeeded(p, "lock_block")
          /\ Has(Locks(b), t) /\ Locks(b)[t] = TRUE
          /\ b["version"] = a["version"] + 1
          /\ t = "background" => b["meta"]["backgroundV"] = a["meta"]["backgroundV"] + 1
          /\ t = "characters" => b["meta"]["charactersV"] = a["meta"]["charactersV"] + 1
          /\ Blocks(b) = Blocks(a)
          /\ \A u \in VALID_BLOCK_TYPES \ {t} : Optional(Locks(b), u) = Optional(Locks(a), u)

\* C6 witness: background was locked in a session where another block type
\* already was.
C6_Witness ==
  \E p \in Procs :
    /\ Succeeded(p, "lock_block") /\ req[p].locked /\ req[p].btype = "background"
    /\ IsLocked(pre[p].c, "characters")

\* C7: a successful chain unlock leaves every scene detail NeedsRegen and
\* returns every scene id; a successful chain lock changes no scene detail and
\* returns no scene id.
C7_ChainUnlockCascade ==
  \A p \in Procs :
    (Finished(p, "lock_chain") /\ res[p].ok)
    => /\ Succeeded(p, "lock_chain")
       /\ IF req[p].locked
          THEN Details(ctx[p]) = Details(pre[p].c) /\ res[p].affected = {}
          ELSE /\ \A k \in DOMAIN Details(ctx[p]) : Details(ctx[p])[k]["status"] = "NeedsRegen"
               /\ res[p].affected = DOMAIN Details(ctx[p])
               /\ DOMAIN Details(ctx[p]) = DOMAIN Details(pre[p].c)

\* C7 witness: a chain was unlocked in a session holding a locked and an
\* unlocked scene detail.
C7_Witness ==
  \E p \in Procs :
    /\ Succeeded(p, "lock_chain") /\ ~req[p].locked
    /\ \E j, k \in DOMAIN Details(pre[p].c) :
         /\ Details(pre[p].c)[j]["status"] = "Locked"
         /\ Details(pre[p].c)[k]["status"] = "Generated"

\* the scene details an unlock of scene s must invalidate: later in sequence
\* and Locked before the call
LaterLocked(details, s) ==
  {k \in DOMAIN details : /\ Sequence(details[k]) > Sequence(details[s])
                          /\ details[k]["status"] = "Locked"}

\* C8: a successful unlock of scene S leaves every later-sequenced scene that
\* was Locked with status NeedsRegen, and affectedScenes is the set of them.
C8_SceneUnlockCascade ==
  \A p \in Procs :
    (Finished(p, "lock_scene") /\ res[p].ok /\ ~req[p].locked)
    => LET a == Details(pre[p].c)
           b == Details(ctx[p])
       IN /\ Succeeded(p, "lock_scene")
          /\ \A k \in LaterLocked(a, req[p].id) : b[k]["status"] = "NeedsRegen"
          /\ res[p].affected = LaterLocked(a, req[p].id)

\* C8 witness: a scene was unlocked while a later scene and a scene of the
\* same sequence were Locked.
C8_Witness ==
  \E p \in Procs :
    /\ Succeeded(p, "lock_scene") /\ ~req[p].locked
    /\ LET a == Details(pre[p].c)
       IN /\ LaterLocked(a, req[p].id) /= {}
          /\ \E k \in DOMAIN a \ {req[p].id} :
               a[k]["status"] = "Locked" /\ Sequence(a[k]) <= Sequence(a[req[p].id])

\* C9: a successful unlock of scene S changes no chain (macroChains and the
\* blocks, blocks.custom.macroChain among them, are as before), and every other
\* scene detail that is not later in sequence or was not Locked is as before.
C9_SceneUnlockFrame ==
  \A p \in Procs :
    (Finished(p, "lock_scene") /\ res[p].ok /\ ~req[p].locked)
    => LET a == Details(pre[p].c)
           b == Details(ctx[p])
           s == req[p].id
       IN /\ Succeeded(p, "lock_scene")
          /\ Optional(ctx[p], "macroChains") = Optional(pre[p].c, "macroChains")
          /\ Blocks(ctx[p]) = Blocks(pre[p].c)
          /\ DOMAIN b = DOMAIN a
          /\ \A k \in DOMAIN a \ {s} :
               (Sequence(a[k]) <= Sequence(a[s]) \/ a[k]["status"] /= "Locked")
               => b[k] = a[k]

\* C9 witness: a scene was unlocked in a session with a Locked chain, a later
\* scene that was not Locked and an earlier scene that was.
C9_Witness ==
  \E p \in Procs :
    /\ Succeeded(p, "lock_scene") /\ ~req[p].locked
    /\ pre[p].c["macroChains"]["c1"]["status"] = "Locked"
    /\ LET a == Details(pre[p].c)
           s == req[p].id
       IN /\ \E k \in DOMAIN a : Sequence(a[k]) > Sequence(a[s]) /\ a[k]["status"] /= "Locked"
          /\ \E k \in DOMAIN a : Sequence(a[k]) < Sequence(a[s]) /\ a[k]["status"] = "Locked"

\* C10: over any sequence of operations on a session, carried out one after
\* another, no step lowers the stored version of the session.
C10_VersionMonotonic ==
  [][\A s \in (DOMAIN store) \cap (DOMAIN store') :
       store'[s]["version"] >= store[s]["version"]]_vars


\* C11: a successful lock_chain adds exactly 1 to the version of the chain it
\* targets, a successful lock_scene adds exactly 1 to the version of the scene
\* detail it targets (whatever version was stored, 0 included), and neither
\* changes the session version.
C11_IndependentVersions ==
  \A p \in Procs :
    /\ (Finished(p, "lock_chain") /\ res[p].ok /\ Len(FindChain(pre[p].c, req[p].id)) > 0)
       => LET old == FindChain(pre[p].c, req[p].id)[1]
              new == ctx[p]["macroChains"][req[p].id]
          IN /\ Has(old, "version") => new["version"] = old["version"] + 1
             /\ ctx[p]["version"] = pre[p].c["version"]
    /\ (Finished(p, "lock_scene") /\ res[p].ok)
       => LET old == Details(pre[p].c)[req[p].id]
              new == Details(ctx[p])[req[p].id]
          IN /\ Has(old, "version") => new["version"] = old["version"] + 1
             /\ ctx[p]["version"] = pre[p].c["version"]

\* the chains stored in a session: macroChains and blocks.custom.macroChain
StoredChains(c) ==
  {Get(c, "macroChains", EmptyDict)[k] : k \in DOMAIN Get(c, "macroChains", EmptyDict)}
  \cup (IF Has(Get(Blocks(c), "custom", EmptyDict), "macroChain")
        THEN {Blocks(c)["custom"]["macroChain"]} ELSE {})

\* C12: every chain and every scene detail stored in a session has a status
\* in {Draft, Generated, Edited, Locked, NeedsRegen}.
C12_StatusDomain ==
  \A s \in DOMAIN store :
    /\ \A ch \in StoredChains(store[s]) : Has(ch, "status") /\ ch["status"] \in Statuses
    /\ \A k \in DOMAIN Details(store[s]) :
         /\ Has(Details(store[s])[k], "status")
         /\ Details(store[s])[k]["status"] \in Statuses

\* C12 witness: a chain unlock and its cascade have been stored: the chain is
\* Edited, a scene detail that was Generated is NeedsRegen.
C12_Witness ==
  \E p \in Procs :
    /\ Succeeded(p, "lock_chain") /\ ~req[p].locked
    /\ store[req[p].sid]["macroChains"][req[p].id]["status"] = "Edited"
    /\ \E k \in DOMAIN Details(pre[p].c) :
         /\ Details(pre[p].c)[k]["status"] = "Generated"
         /\ Details(store[req[p].sid])[k]["status"] = "NeedsRegen"


\* --------------------------------------------- claims under SpecMerge
\* the append of p to a block of one of the types bts has returned successfully
Appended(p, bts) == Succeeded(p, "append") /\ req[p].btype \in bts
\* the block before the append (<<>> when there was none) and after it
BlockBefore(p) == Optional(Blocks(pre[p].c), req[p].btype)
BlockAfter(p) == ctx[p]["blocks"][req[p].btype]

\* C13: after an append to blueprint, background, story_concept or characters
\* the block equals the new data, whatever it held before.
C13_FullReplace ==
  \A p \in Procs :
    Appended(p, {"blueprint", "background", "story_concept", "characters"})
    => BlockAfter(p) = req[p].data.v

\* C13 witness: the same dict was appended a second time to a block that
\* already equalled it, after the first append had dropped the stored fields.
C13_Witness ==
  \E p \in Procs :
    /\ Appended(p, {"background"}) /\ nops = 2 /\ req[p].data.kind = "dict"
    /\ BlockBefore(p) = <<req[p].data.v>>
    /\ ~Has(BlockAfter(p), "premise")

\* C14: after an append to player_hooks or story_facts the block is the
\* previous list (empty when there was no block) followed by the new items in
\* their order, a datum that is not a list being one item.
C14_ListAppend ==
  \A p \in Procs :
    Appended(p, {"player_hooks", "story_facts"})
    => LET before == IF BlockBefore(p) = <<>> THEN <<>> ELSE BlockBefore(p)[1]
           items == IF req[p].data.kind = "list" THEN req[p].data.v ELSE <<req[p].data.v>>
           after == BlockAfter(p)
       IN /\ Len(after) = Len(before) + Len(items)
          /\ \A i \in 1..Len(before) : after[i] = before[i]
          /\ \A i \in 1..Len(items) : after[Len(before) + i] = items[i]

\* C14 witness: a list of two items was appended to a list that earlier
\* appends had already extended.
C14_Witness ==
  \E p \in Procs :
    /\ Appended(p, {"player_hooks"}) /\ nops = 2
    /\ req[p].data.kind = "list" /\ Len(req[p].data.v) = 2
    /\ Len(BlockBefore(p)[1]) > 2

\* C15: after an append to world_seeds each of factions, locations and
\* constraints is the previous list of the field followed by the new list of
\* the field, a missing or null list being empty.
C15_WorldSeedsConcat ==
  \A p \in Procs :
    Appended(p, {"world_seeds"})
    => LET before == IF BlockBefore(p) = <<>> THEN EmptyDict ELSE BlockBefore(p)[1]
           nd == req[p].data.v
           after == BlockAfter(p)
       IN /\ DOMAIN after = {"factions", "locations", "constraints"}
          /\ \A k \in DOMAIN after :
               after[k] = (IF k \in DOMAIN before THEN before[k] ELSE <<>>)
                          \o (IF k \in DOMAIN nd /\ ~nd[k].null THEN nd[k].v ELSE <<>>)

\* C15 witness: an append with a null field and a missing field met a block
\* whose lists were not all empty, and added to one of them.
C15_Witness ==
  \E p \in Procs :
    /\ Appended(p, {"world_seeds"})
    /\ BlockBefore(p) /= <<>> /\ BlockBefore(p)[1]["constraints"] /= <<>>
    /\ \E k \in DOMAIN req[p].data.v : req[p].data.v[k].null
    /\ "constraints" \notin DOMAIN req[p].data.v
    /\ Len(BlockAfter(p)["factions"]) > Len(BlockBefore(p)[1]["factions"])
    /\ Len(BlockBefore(p)[1]["factions"]) > 0

\* C16: after an append to style_prefs every key of the new data but doNots
\* has the new value, every key only the previous block had is kept, and
\* doNots is the previous doNots followed by the new doNots.
C16_StylePrefsMerge ==
  \A p \in Procs :
    Appended(p, {"style_prefs"})
    => LET before == IF BlockBefore(p) = <<>> THEN EmptyDict ELSE BlockBefore(p)[1]
           nd == req[p].data.v
           after == BlockAfter(p)
       IN /\ DOMAIN after = DOMAIN before \cup DOMAIN nd \cup {"doNots"}
          /\ \A k \in DOMAIN nd \ {"doNots"} : after[k] = nd[k]
          /\ \A k \in DOMAIN before \ (DOMAIN nd \cup {"doNots"}) : after[k] = before[k]
          /\ after["doNots"] =
               (IF "doNots" \in DOMAIN before THEN before["doNots"] ELSE <<>>)
               \o (IF "doNots" \in DOMAIN nd /\ ~nd["doNots"].null THEN nd["doNots"].v ELSE <<>>)

\* C16 witness: an append overrode tone, left pacing alone and added to a
\* doNots list that was not empty.
C16_Witness ==
  \E p \in Procs :
    /\ Appended(p, {"style_prefs"}) /\ BlockBefore(p) /= <<>>
    /\ BlockBefore(p)[1]["doNots"] /= <<>>
    /\ Has(req[p].data.v, "doNots") /\ ~req[p].data.v["doNots"].null
    /\ req[p].data.v["doNots"].v /= <<>>
    /\ BlockAfter(p)["tone"] /= BlockBefore(p)[1]["tone"]
    /\ BlockAfter(p)["pacing"] = "slow"

\* C17: after an append to custom every key of the new data but macroChain has
\* the new value and every key only the previous block had is kept; macroChain
\* is the new one laid field by field over the previous one when both have it.
C17_CustomMerge ==
  \A p \in Procs :
    Appended(p, {"custom"})
    => LET before == IF BlockBefore(p) = <<>> THEN EmptyDict ELSE BlockBefore(p)[1]
           nd == req[p].data.v
           after == BlockAfter(p)
       IN /\ DOMAIN after = DOMAIN before \cup DOMAIN nd
          /\ \A k \in DOMAIN nd \ {"macroChain"} : after[k] = nd[k]
          /\ \A k \in DOMAIN before \ DOMAIN nd : after[k] = before[k]
          /\ ("macroChain" \in DOMAIN nd /\ "macroChain" \notin DOMAIN before)
             => after["macroChain"] = nd["macroChain"]
          /\ ("macroChain" \in DOMAIN nd /\ "macroChain" \in DOMAIN before)
             => LET old == before["macroChain"]
                    new == nd["macroChain"]
                    got == after["macroChain"]
                IN /\ DOMAIN got = DOMAIN old \cup DOMAIN new
                   /\ \A f \in DOMAIN new : got[f] = new[f]
                   /\ \A f \in DOMAIN old \ DOMAIN new : got[f] = old[f]

\* C17 witness: an append with a macroChain met a block with a macroChain; the
\* status came from the new data, the chain id from the previous block.
C17_Witness ==
  \E p \in Procs :
    /\ Appended(p, {"custom"}) /\ BlockBefore(p) /= <<>>
    /\ Has(req[p].data.v, "macroChain") /\ Has(BlockBefore(p)[1], "macroChain")
    /\ BlockAfter(p)["macroChain"]["status"] = "Edited"
    /\ BlockAfter(p)["macroChain"]["chainId"] = "c2"
    /\ BlockAfter(p)["note"] = "n"


\* ------------------------------------------ more claims under Spec
\* every write so far went through save_session_context
OnlySaves == \A q \in Procs : req[q].op /= "update"

\* C18: load_session_context takes no lock and waits for none, and what it
\* returns for a stored session is the context the last completed save
\* committed for it, never an empty or half-written store (with no writer
\* but save_session_context at work).
C18_ReadsCommitted ==
  [][\A p \in Procs :
       (OnlySaves /\ pc[p] = "load" /\ pc'[p] = "loaded")
       => /\ slocks' = slocks
          /\ Has(store, req[p].sid)
             => (pre'[p].found /\ pre'[p].c = store[req[p].sid])]_vars

\* C19: the write of a save for one session leaves the stored context of
\* every other session as it was (with no writer but save_session_context at
\* work).
C19_OtherSessionsKept ==
  [][\A p \in Procs :
       (OnlySaves /\ pc[p] = "sv_flush" /\ pc'[p] = "sv_done")
       => \A s \in Sessions \ {req[p].sid} : Optional(store', s) = Optional(store, s)]_vars


\* ---------------------------------------- more claims under SpecSeq
\* C20: while locks.characters is set, upsert_character of a stored character fails with
\* 'Characters are locked and cannot be edited.' and the stored session is
\* left as it was.
C20_LockedCharactersRejectEdits ==
  \A p \in Procs :
    (/\ Finished(p, "upsert") /\ pre[p].found /\ IsLocked(pre[p].c, "characters")
     /\ LET list == Get(Get(Blocks(pre[p].c), "characters", EmptyDict), "list", <<>>)
        IN \E i \in 1..Len(list) : list[i]["id"] = req[p].data.v["id"])
    => /\ ~res[p].ok /\ res[p].err = "Characters are locked and cannot be edited."
       /\ Has(store, req[p].sid) /\ store[req[p].sid] = pre[p].c


\* the chain lock_chain works on: the one of the loaded session, else the one
\* of the legacy store (<<>> when there is none)
ChainBefore(p) ==
  IF FindChain(pre[p].c, req[p].id) /= <<>> THEN FindChain(pre[p].c, req[p].id)
  ELSE Optional(chains, req[p].id)

\* C21: lock_chain on a stored session succeeds exactly when the chain exists
\* and its status allows the transition (not Locked to lock, Locked to unlock);
\* a lock stores status Locked with lockedAt, an unlock status Edited without
\* lockedAt; the refused transitions raise 'Macro chain is already locked' and
\* 'Macro chain is not locked'.
C21_ChainLockMachine ==
  \A p \in Procs :
    (Finished(p, "lock_chain") /\ pre[p].found)
    => LET exists == ChainBefore(p) /= <<>>
           status == IF exists THEN Get(ChainBefore(p)[1], "status", "Draft") ELSE NoneStr
           new == store[req[p].sid]["macroChains"][req[p].id]
       IN /\ res[p].ok <=> (exists /\ (req[p].locked <=> status /= "Locked"))
          /\ (res[p].ok /\ req[p].locked) => (new["status"] = "Locked" /\ Has(new, "lockedAt"))
          /\ (res[p].ok /\ ~req[p].locked) => (new["status"] = "Edited" /\ ~Has(new, "lockedAt"))
          /\ (exists /\ req[p].locked /\ status = "Locked")
             => res[p].err = "Macro chain is already locked"
          /\ (exists /\ ~req[p].locked /\ status /= "Locked")
             => res[p].err = "Macro chain is not locked"

\* C21 witness: a chain that an earlier request had unlocked was locked again.
C21_Witness ==
  \E p \in Procs :
    /\ Succeeded(p, "lock_chain") /\ req[p].locked
    /\ ChainBefore(p) /= <<>> /\ ChainBefore(p)[1]["status"] = "Edited"
    /\ ~Has(ChainBefore(p)[1], "lockedAt")

\* C22: lock_scene succeeds exactly when the scene detail exists and its
\* status allows the transition; a lock stores status Locked, an unlock status
\* NeedsRegen; the refused calls raise 'Scene is already locked', 'Scene is not
\* locked' and, for an unknown scene id, 'Scene detail not found'.
C22_SceneLockMachine ==
  \A p \in Procs :
    Finished(p, "lock_scene")
    => LET exists == Has(Details(pre[p].c), req[p].id)
           status == IF exists THEN Get(Details(pre[p].c)[req[p].id], "status", "Draft")
                     ELSE NoneStr
           new == Details(store[req[p].sid])[req[p].id]
       IN /\ res[p].ok <=> (exists /\ (req[p].locked <=> status /= "Locked"))
          /\ (res[p].ok /\ req[p].locked) => new["status"] = "Locked"
          /\ (res[p].ok /\ ~req[p].locked) => new["status"] = "NeedsRegen"
          /\ ~exists => res[p].err = "Scene detail not found"
          /\ (exists /\ req[p].locked /\ status = "Locked")
             => res[p].err = "Scene is already locked"
          /\ (exists /\ ~req[p].locked /\ status /= "Locked")
             => res[p].err = "Scene is not locked"

\* C22 witness: a scene that an earlier unlock had left NeedsRegen was locked.
C22_Witness ==
  \E p \in Procs :
    /\ Succeeded(p, "lock_scene") /\ req[p].locked /\ nops = 2
    /\ Details(pre[p].c)[req[p].id]["status"] = "NeedsRegen"


\* C23: a lock_chain or lock_scene call that raises leaves the store as it
\* was: a session that was not stored is not stored afterwards, a stored one
\* is unchanged.
C23_FailedLockChangesNothing ==
  \A p \in Procs :
    ((Finished(p, "lock_chain") \/ Finished(p, "lock_scene")) /\ ~res[p].ok)
    => IF pre[p].found /\ ~pre[p].created
       THEN Has(store, req[p].sid) /\ store[req[p].sid] = pre[p].c
       ELSE ~Has(store, req[p].sid)


\* ------------------------------------------------ claims under SpecIO
\* C24: a lock entry is in _session_locks only while a save for its session is
\* in progress, and every step that ends a save, by its return or by 'Failed
\* to save session context', leaves the session's entry out of _session_locks.
C24_LockReleased ==
  /\ [](\A s \in Sessions :
          LockKey(s) \in DOMAIN slocks => \E p \in Procs : InSave(p) /\ req[p].sid = s)
  /\ [][\A p \in Procs :
          (InSave(p) /\ ~InSave(p)') => LockKey(req[p].sid) \notin DOMAIN slocks']_vars

\* C24 witness: a save raised 'Failed to save session context' while another
\* request was waiting for the lock, and no lock entry is left.
C24_Witness ==
  \E p, q \in Procs :
    /\ pc[p] = "idle" /\ res[p].err = "Failed to save session context"
    /\ pc[q] = "idle" /\ res[q].ok /\ res[q].waited
    /\ slocks = EmptyDict


\* C25: right after a successful lock_chain, blocks.custom.macroChain of the
\* session has the chainId, status, version, scenes and lockedAt of the stored
\* macroChains[chainId] (lockedAt is None where the chain has no such key).
C25_MirrorInSync ==
  \A p \in Procs :
    Succeeded(p, "lock_chain")
    => LET c == store[req[p].sid]
           chain == c["macroChains"][req[p].id]
           mirror == c["blocks"]["custom"]["macroChain"]
       IN /\ mirror["chainId"] = chain["chainId"]
          /\ mirror["status"] = chain["status"]
          /\ mirror["version"] = chain["version"]
          /\ mirror["scenes"] = Get(chain, "scenes", <<>>)
          /\ mirror["lockedAt"] = Get(chain, "lockedAt", NoneStr)

\* C25 witness: a chain other than the one mirrored before was locked and the
\* mirror now names it.
C25_Witness ==
  \E p \in Procs :
    /\ Succeeded(p, "lock_chain") /\ req[p].locked
    /\ Get(Get(Blocks(pre[p].c), "custom", EmptyDict), "macroChain", EmptyDict) /= EmptyDict
    /\ Blocks(pre[p].c)["custom"]["macroChain"]["chainId"] /= req[p].id
    /\ store[req[p].sid]["blocks"]["custom"]["macroChain"]["chainId"] = req[p].id
    /\ store[req[p].sid]["blocks"]["custom"]["macroChain"]["status"] = "Locked"

\* C26: generate_characters stores a characters block only when the session
\* has a non-empty background block and locks.background is set; otherwise it
\* fails with 'Background must be locked before generating Characters.' and
\* the stored blocks, locks and version are those it found.  (The blocks have
\* the shape process_context_for_prompt reads.)
C26_GenerateNeedsLockedBackground ==
  \A p \in Procs :
    Finished(p, "generate")
    => LET before == pre[p].c
           after == store[req[p].sid]
           guard == /\ Has(Blocks(before), "background")
                    /\ Blocks(before)["background"] /= EmptyDict
                    /\ Has(Locks(before), "background") /\ Locks(before)["background"]
       IN /\ res[p].ok => guard
          /\ ~guard => /\ ~res[p].ok
                       /\ res[p].err = "Background must be locked before generating Characters."
          /\ ~res[p].ok => /\ Blocks(after) = Blocks(before)
                           /\ Locks(after) = Locks(before)
                           /\ after["version"] = before["version"]

\* C26 witness: characters were generated and stored after the background had
\* been locked.
C26_Witness ==
  \E p \in Procs :
    /\ Succeeded(p, "generate") /\ IsLocked(pre[p].c, "background")
    /\ store[req[p].sid]["blocks"]["characters"]["list"] /= SeedCharacters
    /\ store[req[p].sid]["version"] = pre[p].c["version"] + 1

\* the meta counter of a session, 0 when absent
Counter(c, key) == PyOr(Get(Get(c, "meta", EmptyDict), key, 0), 0)

\* C27: clear_context empties the blocks and sets the version to 0; the locks,
\* the counters backgroundV and charactersV, macroChains, sceneDetails and
\* every other key of the session keep their values.
C27_ClearFrame ==
  \A p \in Procs :
    Succeeded(p, "clear")
    => LET before == pre[p].c
           after == store[req[p].sid]
       IN /\ after["blocks"] = EmptyDict
          /\ after["version"] = 0
          /\ Locks(after) = Locks(before)
          /\ Counter(after, "backgroundV") = Counter(before, "backgroundV")
          /\ Counter(after, "charactersV") = Counter(before, "charactersV")
          /\ DOMAIN after = DOMAIN before \cup {"blocks", "version"}
          /\ \A k \in DOMAIN before \ {"blocks", "version"} : after[k] = before[k]

\* C27 witness: a session with blocks, a lock set by an earlier request,
\* chains and scene details was cleared.
C27_Witness ==
  \E p \in Procs :
    /\ Succeeded(p, "clear")
    /\ Blocks(pre[p].c) /= EmptyDict /\ pre[p].c["version"] > 0
    /\ \E bt \in DOMAIN Locks(pre[p].c) : Locks(pre[p].c)[bt]
    /\ Get(pre[p].c, "macroChains", EmptyDict) /= EmptyDict
    /\ Details(pre[p].c) /= EmptyDict
    /\ Counter(store[req[p].sid], "backgroundV") > 0

\* C28: a successful append raises the version by 1, changes no block but the
\* appended one, raises backgroundV by 1 for background, charactersV by 1 for
\* characters and no counter otherwise, and keeps locks, macroChains and
\* sceneDetails.
C28_AppendFrame ==
  \A p \in Procs :
    Succeeded(p, "append")
    => LET before == pre[p].c
           after == store[req[p].sid]
           bt == req[p].btype
       IN /\ after["version"] = PyOr(Get(before, "version", 0), 0) + 1
          /\ DOMAIN Blocks(after) = DOMAIN Blocks(before) \cup {bt}
          /\ \A k \in DOMAIN Blocks(before) \ {bt} : Blocks(after)[k] = Blocks(before)[k]
          /\ Counter(after, "backgroundV")
               = Counter(before, "backgroundV") + (IF bt = "background" THEN 1 ELSE 0)
          /\ Counter(after, "charactersV")
               = Counter(before, "charactersV") + (IF bt = "characters" THEN 1 ELSE 0)
          /\ Locks(after) = Locks(before)
          /\ Get(after, "macroChains", EmptyDict) = Get(before, "macroChains", EmptyDict)
          /\ Details(after) = Details(before)

\* C28 witness: a characters block was appended to a session that holds other
\* blocks, chains and scene details, after an earlier background append.
C28_Witness ==
  \E p \in Procs :
    /\ Succeeded(p, "append") /\ req[p].btype = "characters"
    /\ Has(Blocks(pre[p].c), "player_hooks")
    /\ Details(pre[p].c) /= EmptyDict
    /\ Counter(pre[p].c, "backgroundV") = 2
    /\ Counter(store[req[p].sid], "charactersV") = Counter(pre[p].c, "charactersV") + 1

\* C29: an append to a block whose locks entry is true succeeds as an append
\* to an unlocked block does: the block is replaced (background, characters)
\* or extended (player_hooks) and the version grows by 1.
C29_AppendIgnoresLocks ==
  \A p \in Procs :
    (/\ Finished(p, "append") /\ ValidationError(req[p]) = ""
     /\ IsLocked(pre[p].c, req[p].btype))
    => /\ res[p].ok
       /\ store[req[p].sid] = ctx[p]
       /\ ctx[p]["version"] = PyOr(Get(pre[p].c, "version", 0), 0) + 1
       /\ IsLocked(ctx[p], req[p].btype)
       /\ IF req[p].btype \in {"background", "characters"}
          THEN BlockAfter(p) = req[p].data.v
          ELSE req[p].btype = "player_hooks"
               => BlockAfter(p) = ExistingList(BlockBefore(p)) \o <<req[p].data.v>>

\* C29 witness: player_hooks was locked and an item was then appended to it.
C29_Witness ==
  \E p \in Procs :
    /\ Finished(p, "append") /\ req[p].btype = "player_hooks"
    /\ IsLocked(pre[p].c, "player_hooks")
    /\ Len(BlockAfter(p)) = Len(Blocks(pre[p].c)["player_hooks"]) + 1

\* C30: when lock_chain or lock_scene changes the status of a scene detail,
\* of the scene it was called on or of a scene its cascade reaches, the
\* version of that scene detail is larger after the call than before it.
C30_StatusChangeBumpsVersion ==
  \A p \in Procs : \A op \in {"lock_chain", "lock_scene"} :
    Succeeded(p, op)
    => LET before == Details(pre[p].c)
           after == Details(store[req[p].sid])
       IN \A k \in DOMAIN before :
            Get(after[k], "status", NoneStr) /= Get(before[k], "status", NoneStr)
            => Get(after[k], "version", 0) > Get(before[k], "version", 0)

\* the chains a session holds under a chain id: the entry of macroChains and
\* the embedded blocks.custom.macroChain when it carries that id
HeldChains(c, chain_id) ==
  LET mcs == Get(c, "macroChains", EmptyDict)
      embedded == Get(Get(Blocks(c), "custom", EmptyDict), "macroChain", EmptyDict)
  IN {mcs[k] : k \in {k \in DOMAIN mcs : k = chain_id /\ mcs[k] /= EmptyDict}}
     \cup (IF Get(embedded, "chainId", NoneStr) = chain_id THEN {embedded} ELSE {})

\* C31: is_chain_locked(session, chainId) is true exactly when the session
\* holds a chain with that chainId whose status is Locked; for a chainId the
\* session does not hold it is false.
C31_ChainLockedById ==
  \A p \in Procs :
    (Finished(p, "is_chain_locked") /\ res[p].ok)
    => (res[p].value
        <=> \E chain \in HeldChains(ctx[p], req[p].id) :
              Get(chain, "status", NoneStr) = "Locked")

\* C32: an upsert on generated, unlocked characters succeeds; a stored
\* character with the request's id is replaced by the request character, a
\* request character with a new id is added to the list; the session version
\* grows by 1.
C32_UpsertUpdatesOrInserts ==
  \A p \in Procs :
    (/\ Finished(p, "upsert") /\ ValidationError(req[p]) = ""
     /\ Get(Get(Blocks(pre[p].c), "characters", EmptyDict), "list", <<>>) /= <<>>
     /\ ~Get(Blocks(pre[p].c)["characters"], "locked", FALSE))
    => LET before == Blocks(pre[p].c)["characters"]["list"]
           after == Blocks(store[req[p].sid])["characters"]["list"]
           character == req[p].data.v
           i == IndexOfId(before, character["id"])
       IN /\ res[p].ok
          /\ store[req[p].sid]["version"] = pre[p].c["version"] + 1
          /\ IF i > 0
             THEN after = ReplaceAt(before, i, character)
             ELSE /\ \E j \in 1..Len(after) : after[j] = character
                  /\ Len(after) = Len(before) + 1

\* get_or_create_session_context of handler p found the session when it loaded
FoundByGoc(p) == req[p].op = "get_or_create" /\ pre[p].found /\ ~pre[p].created

\* C33: get_or_create_session_context returns the stored context of a session
\* that exists (stored with its meta, as every session this code stores is)
\* and writes nothing; for a session that does not exist it stores
\* and returns a context with version 0, no blocks, no locks and
\* backgroundV = charactersV = macroSnapshotV = 0; a call that follows
\* another one therefore leaves the store as the first call left it.
C33_GetOrCreateIdempotent ==
  /\ [](\A p \in Procs :
          (Finished(p, "get_or_create") /\ res[p].ok)
          => LET c == ctx[p]
             IN /\ fstate = "ok" /\ Has(store, req[p].sid)
                /\ c = store[req[p].sid]
                /\ c["sessionId"] = req[p].sid
                /\ pre[p].created
                   => /\ c["version"] = 0
                      /\ c["blocks"] = EmptyDict /\ c["locks"] = EmptyDict
                      /\ c["meta"]["backgroundV"] = 0 /\ c["meta"]["charactersV"] = 0
                      /\ c["meta"]["macroSnapshotV"] = 0)
  /\ [][\A p \in Procs :
          (/\ pc[p] /= "idle" /\ req[p].op = "get_or_create"
           /\ fstate = "ok" /\ Has(store, req[p].sid))
          => (store' = store /\ fstate' = fstate)]_vars

\* C33 witness: a call created the session and a second call for the same
\* session has returned what the first one stored.
C33_Witness ==
  \E p \in Procs :
    /\ Finished(p, "get_or_create") /\ res[p].ok /\ nops = 2
    /\ FoundByGoc(p) /\ req[p].sid = "s2"
    /\ ctx[p] = store["s2"] /\ store["s2"]["version"] = 0
    /\ store["s2"]["blocks"] = EmptyDict

====
